---- MODULE Spec2Model ----
(***************************************************************************)
(* A model of treetools' tree collaborator (src/trees/trees.py): the Tree  *)
(* class with its id generator, the terminal yield, the block              *)
(* segmentation, lca/dominance and the label parser; and of the grammar    *)
(* extraction and binarization that build on it.                           *)
(***************************************************************************)
EXTENDS Integers, Sequences, FiniteSets, TLC

VARIABLES
    nodes,      \* the Tree instances, by construction order: id, children, parent, data
    newid,      \* Tree.newid: the next value of the class-wide id counter
    result,     \* the outcome of the last call of a tree function
    caller,     \* the data dict the caller passes to Tree(), as the caller sees it
    shares,     \* which nodes' data is (in part) the very object the caller holds
    call,       \* the arguments of the parse_label call
    parsed,     \* what the parse_label call returned or raised
    grammar,    \* the syntactic rule store that extract fills
    lexicon,    \* the lexical rule store that extract fills
    corpus,     \* the number of trees extracted so far
    bin_grammar,\* the grammar that binarize returned
    config      \* the arguments of the binarize call and how it ended

treeVars == <<nodes, newid, result>>
copyVars == <<caller, shares>>
labelVars == <<call, parsed>>
gramVars == <<grammar, lexicon, corpus, bin_grammar, config>>
vars == <<nodes, newid, result, caller, shares, call, parsed,
          grammar, lexicon, corpus, bin_grammar, config>>

(***************************************************************************)
(* Bounds of the model.                                                    *)
(***************************************************************************)
MaxNodes == 4
MaxPos == 3

Positions == 0..MaxPos

(***************************************************************************)
(* Node data.  A data dict is modelled by its key set, the value of 'num'  *)
(* (read only when the key is present), the value of 'label' and the      *)
(* content of a mutable value (a list) stored under a further key.         *)
(***************************************************************************)
make_node_data == [keys |-> {"word", "lemma", "label", "morph", "edge", "parent_num"},
                   num |-> 0, label |-> "None", extra |-> <<>>]

WithNum(p) == [make_node_data EXCEPT !.keys = @ \cup {"num"}, !.num = p]

EmptyDict == [keys |-> {}, num |-> 0, label |-> "None", extra |-> <<>>]

LeafData == {WithNum(p) : p \in Positions} \cup {make_node_data, EmptyDict}

None == 0

has_children(ns, t) == Len(ns[t].children) > 0

(***************************************************************************)
(* sorted(list, key): Python's sort is stable, so an element goes behind   *)
(* every element whose key is not greater.  key is a function on 1..Len.   *)
(***************************************************************************)
RECURSIVE InsertByKey(_, _, _)
InsertByKey(out, x, keys) ==
    \* out: indices already in order; x: the index to insert
    IF out = <<>> THEN <<x>>
    ELSE IF keys[out[Len(out)]] <= keys[x] THEN Append(out, x)
    ELSE Append(InsertByKey(SubSeq(out, 1, Len(out) - 1), x, keys), out[Len(out)])

RECURSIVE SortedIndices(_, _)
SortedIndices(keys, n) ==
    IF n = 0 THEN <<>> ELSE InsertByKey(SortedIndices(keys, n - 1), n, keys)

sorted(list, keys) ==
    LET order == SortedIndices(keys, Len(list))
    IN [i \in 1..Len(list) |-> list[order[i]]]

Ok(list) == [status |-> "ok", list |-> list]
Raise(err) == [status |-> err, list |-> <<>>]

(***************************************************************************)
(* terminals(tree): a leaf without 'num' raises; building the ValueError's *)
(* message reads data['word'] and data['label'], which raises KeyError     *)
(* when the dict lacks one of them.                                        *)
(***************************************************************************)
LeafTerminals(ns, t) ==
    IF "num" \notin ns[t].data.keys
    THEN IF {"word", "label"} \subseteq ns[t].data.keys
         THEN Raise("ValueError") ELSE Raise("KeyError")
    ELSE Ok(<<t>>)

RECURSIVE terminals(_, _)
RECURSIVE ExtendTerminals(_, _, _, _)
ExtendTerminals(ns, cs, i, acc) ==
    IF i > Len(cs) THEN Ok(acc)
    ELSE LET sub == terminals(ns, cs[i])
         IN IF sub.status # "ok" THEN sub
            ELSE ExtendTerminals(ns, cs, i + 1, acc \o sub.list)

terminals(ns, t) ==
    IF Len(ns[t].children) = 0 THEN LeafTerminals(ns, t)
    ELSE LET r == ExtendTerminals(ns, ns[t].children, 1, <<>>)
         IN IF r.status # "ok" THEN r
            ELSE Ok(sorted(r.list, [i \in 1..Len(r.list) |-> ns[r.list[i]].data.num]))

RECURSIVE unordered_terminals(_, _)
RECURSIVE ExtendUnordered(_, _, _)
ExtendUnordered(ns, cs, i) ==
    IF i > Len(cs) THEN <<>>
    ELSE unordered_terminals(ns, cs[i]) \o ExtendUnordered(ns, cs, i + 1)

unordered_terminals(ns, t) ==
    IF Len(ns[t].children) = 0 THEN <<t>>
    ELSE ExtendUnordered(ns, ns[t].children, 1)

(***************************************************************************)
(* terminal_blocks(tree): a new block opens behind terms[i] when           *)
(* terms[i].num + 1 < terms[i + 1].num.                                    *)
(***************************************************************************)
\* Faulty variants of OpensBlock: the comparison off by one, and the comparison of a
\* terminal with itself.
OpensBlockOffByOne(ns, terms, i) ==
    ns[terms[i]].data.num + 1 <= ns[terms[i + 1]].data.num

OpensBlockSelf(ns, terms, i) == ns[terms[i]].data.num + 1 < ns[terms[i]].data.num

OpensBlock(ns, terms, i) == ns[terms[i]].data.num + 1 < ns[terms[i + 1]].data.num

AppendToLast(blocks, x) ==
    [blocks EXCEPT ![Len(blocks)] = Append(@, x)]

RECURSIVE BlocksLoop(_, _, _, _)
BlocksLoop(ns, terms, i, blocks) ==
    IF i > Len(terms) - 1 THEN blocks
    ELSE LET b == AppendToLast(blocks, terms[i])
         IN BlocksLoop(ns, terms, i + 1,
                       IF OpensBlock(ns, terms, i) THEN Append(b, <<>>) ELSE b)

terminal_blocks(ns, t) ==
    LET r == terminals(ns, t)
    IN IF r.status # "ok" THEN [status |-> r.status, blocks |-> <<>>]
       ELSE [status |-> "ok",
             blocks |-> AppendToLast(BlocksLoop(ns, r.list, 1, <<<<>>>>),
                                     r.list[Len(r.list)])]

(***************************************************************************)
(* children(tree): tree.children sorted by the position of each child's    *)
(* first terminal; the key function raises what terminals raises.          *)
(***************************************************************************)
RECURSIVE ChildKeys(_, _, _, _)
ChildKeys(ns, cs, i, acc) ==
    IF i > Len(cs) THEN Ok(acc)
    ELSE LET sub == terminals(ns, cs[i])
         IN IF sub.status # "ok" THEN sub
            ELSE ChildKeys(ns, cs, i + 1, Append(acc, ns[sub.list[1]].data.num))

children(ns, t) ==
    LET ks == ChildKeys(ns, ns[t].children, 1, <<>>)
    IN IF ks.status # "ok" THEN ks
       ELSE Ok(sorted(ns[t].children, ks.list))

(***************************************************************************)
(* Tree.__eq__ / __ne__: by id, and only between Trees.  other is          *)
(* [isTree, ref]; a value of another class is never equal.                 *)
(***************************************************************************)
TreeEqOther(ns, s, other) ==
    IF other.isTree THEN ns[s].id = ns[other.ref].id ELSE FALSE

TreeNeOther(ns, s, other) == ~TreeEqOther(ns, s, other)

\* el_a == el_b between two Trees
TreeEq(ns, s, t) == TreeEqOther(ns, s, [isTree |-> TRUE, ref |-> t])

(***************************************************************************)
(* dominance(tree): the tree and its ancestors, bottom up.                 *)
(***************************************************************************)
RECURSIVE dominance(_, _)
dominance(ns, t) ==
    IF ns[t].parent = None THEN <<t>>
    ELSE <<t>> \o dominance(ns, ns[t].parent)

Reverse(s) == [i \in 1..Len(s) |-> s[Len(s) + 1 - i]]

Min(a, b) == IF a <= b THEN a ELSE b

(***************************************************************************)
(* lca(tree_a, tree_b): walks both root paths top down and returns         *)
(* dom_a[::-1][i - 1] at the first index i where they differ (index -1 is  *)
(* the last element), None when the zip ends without a difference.         *)
(***************************************************************************)
RECURSIVE LcaLoop(_, _, _, _)
LcaLoop(ns, ra, rb, i) ==
    \* i is the 0-based index of the zip
    IF i >= Min(Len(ra), Len(rb)) THEN None
    ELSE IF ~TreeEq(ns, ra[i + 1], rb[i + 1])
         THEN (IF i = 0 THEN ra[Len(ra)] ELSE ra[i])
         ELSE LcaLoop(ns, ra, rb, i + 1)

lca(ns, a, b) == LcaLoop(ns, Reverse(dominance(ns, a)), Reverse(dominance(ns, b)), 0)

(***************************************************************************)
(* The trees the tree functions are applied to: every forest of up to      *)
(* MaxNodes nodes (a node's parent is constructed before it).  A leaf has  *)
(* any of the data dicts of LeafData; the positions that are given are     *)
(* pairwise different (Tree's docstring: repeated indices are an error).   *)
(***************************************************************************)
ParentVectors(n) == {p \in [1..n -> 0..(n - 1)] : \A i \in 1..n : p[i] < i}

RECURSIVE SetToSeq(_)
SetToSeq(S) ==
    IF S = {} THEN <<>>
    ELSE LET m == CHOOSE x \in S : \A y \in S : x <= y
         IN <<m>> \o SetToSeq(S \ {m})

BuildForest(n, p, d) ==
    [i \in 1..n |->
        LET cs == SetToSeq({j \in 1..n : p[j] = i})
        IN [id |-> i - 1, children |-> cs, parent |-> p[i], data |-> d[i]]]

IsLeafOf(p, n, i) == \A j \in 1..n : p[j] # i

DataFor(p, n, d) ==
    /\ \A i \in 1..n : ~IsLeafOf(p, n, i) => d[i] = make_node_data
    /\ \A i, j \in 1..n :
          (/\ i # j
           /\ IsLeafOf(p, n, i) /\ IsLeafOf(p, n, j)
           /\ "num" \in d[i].keys /\ "num" \in d[j].keys) => d[i].num # d[j].num

NoResult == [op |-> "none", a |-> 0, b |-> 0, status |-> "ok",
             list |-> <<>>, blocks |-> <<>>, node |-> None, eq |-> FALSE, ne |-> FALSE]

NoCaller == caller = make_node_data /\ shares = {}

NoLabel == [status |-> "none", label |-> <<>>, gf |-> <<>>, gf_separator |-> <<>>,
            coindex |-> <<>>, gapindex |-> <<>>, headmarker |-> <<>>, is_trace |-> FALSE]

NoCall == /\ call = [label |-> <<>>, keys |-> {}, gf_separator |-> "-", trees_bound |-> FALSE]
          /\ parsed = NoLabel

NoConfig == [status |-> "none", v |-> 0, h |-> 0, reordering |-> "left_to_right"]

NoGrammar == /\ grammar = {} /\ lexicon = {} /\ corpus = 0
             /\ bin_grammar = {} /\ config = NoConfig

\* One call per drawn forest: a call only overwrites result, so calling again
\* reaches no state that a first call does not reach.
Fresh == result.op = "none"

InitTree ==
    /\ \E n \in 1..MaxNodes : \E p \in ParentVectors(n) : \E d \in [1..n -> LeafData] :
          /\ DataFor(p, n, d)
          /\ nodes = BuildForest(n, p, d)
    /\ newid = Len(nodes)
    /\ result = NoResult
    /\ NoCaller
    /\ NoCall
    /\ NoGrammar

CallTerminals(t) ==
    /\ Fresh
    /\ result' = [NoResult EXCEPT !.op = "terminals", !.a = t,
                                  !.status = terminals(nodes, t).status,
                                  !.list = terminals(nodes, t).list]
    /\ UNCHANGED <<nodes, newid, copyVars, labelVars, gramVars>>

CallTerminalBlocks(t) ==
    /\ Fresh
    /\ result' = [NoResult EXCEPT !.op = "terminal_blocks", !.a = t,
                                  !.status = terminal_blocks(nodes, t).status,
                                  !.blocks = terminal_blocks(nodes, t).blocks]
    /\ UNCHANGED <<nodes, newid, copyVars, labelVars, gramVars>>

CallChildren(t) ==
    /\ Fresh
    /\ result' = [NoResult EXCEPT !.op = "children", !.a = t,
                                  !.status = children(nodes, t).status,
                                  !.list = children(nodes, t).list]
    /\ UNCHANGED <<nodes, newid, copyVars, labelVars, gramVars>>

NextTree ==
    \/ \E t \in 1..Len(nodes) : CallTerminals(t)
    \/ \E t \in 1..Len(nodes) : CallTerminalBlocks(t)
    \/ \E t \in 1..Len(nodes) : CallChildren(t)

SpecTree == InitTree /\ [][NextTree]_vars

(***************************************************************************)
(* lca is applied to every pair of nodes of every forest shape; it reads   *)
(* no node data.                                                           *)
(***************************************************************************)
InitLca ==
    /\ \E n \in 1..MaxNodes : \E p \in ParentVectors(n) :
          nodes = BuildForest(n, p, [i \in 1..n |-> make_node_data])
    /\ newid = Len(nodes)
    /\ result = NoResult
    /\ NoCaller
    /\ NoCall
    /\ NoGrammar

CallLca(a, b) ==
    /\ Fresh
    /\ result' = [NoResult EXCEPT !.op = "lca", !.a = a, !.b = b,
                                  !.node = lca(nodes, a, b)]
    /\ UNCHANGED <<nodes, newid, copyVars, labelVars, gramVars>>

CallDominance(t) ==
    /\ Fresh
    /\ result' = [NoResult EXCEPT !.op = "dominance", !.a = t,
                                  !.list = dominance(nodes, t)]
    /\ UNCHANGED <<nodes, newid, copyVars, labelVars, gramVars>>

NextLca ==
    \/ \E a, b \in 1..Len(nodes) : CallLca(a, b)
    \/ \E t \in 1..Len(nodes) : CallDominance(t)

SpecLca == InitLca /\ [][NextLca]_vars

(***************************************************************************)
(* Claims about the terminal yield and the blocks.                         *)
(***************************************************************************)
Range(s) == {s[i] : i \in 1..Len(s)}

RECURSIVE Flatten(_)
Flatten(ss) == IF ss = <<>> THEN <<>> ELSE Head(ss) \o Flatten(Tail(ss))

Leaves(t) == Range(unordered_terminals(nodes, t))

AllHaveNum(t) == \A l \in Leaves(t) : "num" \in nodes[l].data.keys

DistinctNums(t) ==
    \A l, m \in Leaves(t) : l # m => nodes[l].data.num # nodes[m].data.num

Num(l) == nodes[l].data.num

\* C1: for a tree whose leaves carry distinct positions, terminal_blocks
\* returns a non-empty list of non-empty blocks whose concatenation is
\* terminals(tree) in ascending position order, positions inside a block
\* step by exactly 1, and between a block's last and the next block's first
\* position the step is more than 1.
C1_BlocksAreMaximalRuns ==
    (result.op = "terminal_blocks" /\ AllHaveNum(result.a) /\ DistinctNums(result.a))
    => LET bs == result.blocks
           flat == Flatten(bs)
       IN /\ result.status = "ok"
          /\ Len(bs) >= 1
          /\ \A k \in 1..Len(bs) : Len(bs[k]) >= 1
          /\ flat = terminals(nodes, result.a).list
          /\ Range(flat) = Leaves(result.a)
          /\ \A i \in 1..(Len(flat) - 1) : Num(flat[i]) < Num(flat[i + 1])
          /\ \A k \in 1..Len(bs) : \A i \in 1..(Len(bs[k]) - 1) :
                Num(bs[k][i + 1]) = Num(bs[k][i]) + 1
          /\ \A k \in 1..(Len(bs) - 1) :
                Num(bs[k + 1][1]) - Num(bs[k][Len(bs[k])]) > 1

\* C1's case: a yield of a block of two positions and, behind a gap, another block.
C1_Witness ==
    /\ result.op = "terminal_blocks"
    /\ result.status = "ok"
    /\ Len(result.blocks) >= 2
    /\ \E k \in 1..Len(result.blocks) : Len(result.blocks[k]) >= 2

\* The leaves a call reads: terminals and terminal_blocks read the leaves of
\* the tree, children reads the leaves below the tree's children.
LeavesRead ==
    IF result.op = "children" /\ ~has_children(nodes, result.a) THEN {}
    ELSE Leaves(result.a)

\* C2: a call that reaches a leaf without 'num' fails with a ValueError;
\* without such a leaf, terminals returns the leaves of the subtree, each
\* once, in ascending order of 'num'.
C2_MissingNumIsValueError ==
    /\ (/\ result.op \in {"terminals", "terminal_blocks", "children"}
        /\ \E l \in LeavesRead : "num" \notin nodes[l].data.keys)
       => (result.status = "ValueError" /\ result.list = <<>>)
    /\ (result.op = "terminals" /\ AllHaveNum(result.a))
       => /\ result.status = "ok"
          /\ Range(result.list) = Leaves(result.a)
          /\ Len(result.list) = Cardinality(Leaves(result.a))
          /\ \A i \in 1..(Len(result.list) - 1) :
                Num(result.list[i]) <= Num(result.list[i + 1])

(***************************************************************************)
(* Claims about lca.                                                       *)
(***************************************************************************)
Root(t) == LET d == dominance(nodes, t) IN d[Len(d)]

Depth(t) == Len(dominance(nodes, t))

CommonAncestors(a, b) == Range(dominance(nodes, a)) \cap Range(dominance(nodes, b))

\* C6: for two nodes of the same tree (a = b and ancestor pairs included)
\* lca returns the deepest node on both root paths.
C6_LcaIsDeepestCommon ==
    (result.op = "lca" /\ Root(result.a) = Root(result.b))
    => /\ result.node \in CommonAncestors(result.a, result.b)
       /\ \A c \in CommonAncestors(result.a, result.b) : Depth(c) <= Depth(result.node)

\* C7: for two nodes without a common ancestor lca returns None.
C7_LcaNoneAcrossTrees ==
    (result.op = "lca" /\ CommonAncestors(result.a, result.b) = {})
    => result.node = None

(***************************************************************************)
(* parse_label.  A string is a sequence of characters; positions are       *)
(* Python's, counted from 0, and NoPos stands for None.                    *)
(***************************************************************************)
MaxLabelLen == 4

Chars == {"N", "-", "=", "1", "'", "#", "*"}
Digits == {"0", "1", "2", "3", "4", "5", "6", "7", "8", "9"}

DEFAULT_GF_SEPARATOR == "-"
DEFAULT_COINDEX_SEPARATOR == "-"
DEFAULT_GAPPING_SEPARATOR == "="
DEFAULT_HEAD_MARKER == "'"
DEFAULT_EDGE == <<"-", "-">>

NoPos == -1

\* label[:pos] and label[pos + 1:]
UpTo(label, pos) == SubSeq(label, 1, Min(pos, Len(label)))
After(label, pos) == SubSeq(label, pos + 2, Len(label))

isdigit(str) == Len(str) > 0 /\ \A i \in 1..Len(str) : str[i] \in Digits

\* The scans run from the back: the separator loop keeps the first hit (the
\* last occurrence), the gf loop overwrites and ends on the first occurrence.
LastPos(label, char) ==
    IF \E i \in 1..Len(label) : label[i] = char
    THEN (CHOOSE i \in 1..Len(label) :
             label[i] = char /\ \A j \in (i + 1)..Len(label) : label[j] # char) - 1
    ELSE NoPos

FirstPos(label, char) ==
    IF \E i \in 1..Len(label) : label[i] = char
    THEN (CHOOSE i \in 1..Len(label) :
             label[i] = char /\ \A j \in 1..(i - 1) : label[j] # char) - 1
    ELSE NoPos

LabelError(err) == [status |-> err, label |-> <<>>, gf |-> <<>>, gf_separator |-> <<>>,
                    coindex |-> <<>>, gapindex |-> <<>>, headmarker |-> <<>>,
                    is_trace |-> FALSE]

\* The gf separator in effect: the default, unless the default separator
\* itself is a key of params; then params['gf_separator'] is read.
GfSeparatorLookup(params) ==
    IF DEFAULT_GF_SEPARATOR \in params.keys
    THEN (IF "gf_separator" \in params.keys THEN params.gf_separator ELSE "KeyError")
    ELSE DEFAULT_GF_SEPARATOR

\* Lines 229-241: the gf split and the result.  In Python 2, None > 1 is False.
SplitGf(label, gf_separator, coindex, headmarker) ==
    LET gf_sep_pos == FirstPos(label, gf_separator)
        split == gf_sep_pos # NoPos /\ gf_sep_pos > 1
        base == IF split THEN UpTo(label, gf_sep_pos) ELSE label
    IN [status |-> "ok",
        label |-> base,
        gf |-> IF split THEN After(label, gf_sep_pos) ELSE DEFAULT_EDGE,
        gf_separator |-> <<gf_separator>>,
        coindex |-> coindex,
        gapindex |-> <<>>,
        headmarker |-> headmarker,
        is_trace |-> base[1] = "*" /\ base[Len(base)] = "*"]

\* Lines 211-228: the coindex is cut off; the gap index branch reads the name
\* gapindex_sep_pos, which is bound nowhere.
SplitIndex(label, gf_separator, headmarker) ==
    LET coindex_sep_pos == LastPos(label, DEFAULT_COINDEX_SEPARATOR)
        gapping_sep_pos == LastPos(label, DEFAULT_GAPPING_SEPARATOR)
        hasCo == coindex_sep_pos # NoPos /\ isdigit(After(label, coindex_sep_pos))
        coindex == IF hasCo THEN After(label, coindex_sep_pos) ELSE <<>>
        label2 == IF hasCo THEN UpTo(label, coindex_sep_pos) ELSE label
    IN IF gapping_sep_pos # NoPos /\ isdigit(After(label2, gapping_sep_pos))
       THEN LabelError("NameError")
       ELSE IF Len(label2) = 0 THEN LabelError("ValueError")
       ELSE SplitGf(label2, gf_separator, coindex, headmarker)

\* trees_bound: whether the module's global namespace binds the name `trees`
\* that every DEFAULT_* constant is read through; the module itself never
\* binds it.
parse_label(label, params, trees_bound) ==
    IF ~trees_bound THEN LabelError("NameError")
    ELSE IF GfSeparatorLookup(params) = "KeyError" THEN LabelError("KeyError")
    ELSE IF Len(label) = 0 THEN LabelError("IndexError")
    ELSE LET marked == label[Len(label)] = DEFAULT_HEAD_MARKER
         IN SplitIndex(IF marked THEN UpTo(label, Len(label) - 1) ELSE label,
                       GfSeparatorLookup(params),
                       IF marked THEN <<label[Len(label)]>> ELSE <<>>)

Labels == UNION {[1..n -> Chars] : n \in 0..MaxLabelLen}

GfSeparators == {"#", "-"}

Kwargs == {[keys |-> k, gf_separator |-> IF "gf_separator" \in k THEN g ELSE "-"] :
             k \in SUBSET {"gf_separator", "-"}, g \in GfSeparators}

InitLabel ==
    /\ nodes = <<>> /\ newid = 0 /\ result = NoResult
    /\ NoCaller
    /\ \E l \in Labels, kw \in Kwargs, tb \in BOOLEAN :
          call = [label |-> l, keys |-> kw.keys, gf_separator |-> kw.gf_separator,
                  trees_bound |-> tb]
    /\ parsed = NoLabel
    /\ NoGrammar

CallParseLabel ==
    /\ parsed.status = "none"
    /\ parsed' = parse_label(call.label, call, call.trees_bound)
    /\ UNCHANGED <<call, treeVars, copyVars, gramVars>>

NextLabel == CallParseLabel

SpecLabel == InitLabel /\ [][NextLabel]_vars

(***************************************************************************)
(* Claims about parse_label.                                               *)
(***************************************************************************)
\* C8: with gf_separator=s the grammatical function is split off at s and the
\* returned gf_separator is s; without the argument the default is used.
C8_GfSeparatorConfigurable ==
    (parsed.status = "ok")
    => parsed.gf_separator =
          <<IF "gf_separator" \in call.keys THEN call.gf_separator
            ELSE DEFAULT_GF_SEPARATOR>>

Unmarked(label) ==
    IF Len(label) > 0 /\ label[Len(label)] = DEFAULT_HEAD_MARKER
    THEN UpTo(label, Len(label) - 1) ELSE label

\* C9: when the text behind the last '=' is all digits, parse_label returns a
\* Label whose gapindex is those digits and whose base label has lost the
\* separator and the digits; for every other label gapindex is empty.
C9_GapIndexLikeCoindex ==
    LET label == Unmarked(call.label)
        pos == LastPos(label, DEFAULT_GAPPING_SEPARATOR)
        gapped == pos # NoPos /\ isdigit(After(label, pos))
    IN /\ (parsed.status # "none" /\ call.trees_bound /\ gapped /\ pos > 0
           /\ GfSeparatorLookup(call) # "KeyError")
          => /\ parsed.status = "ok"
             /\ parsed.gapindex = After(label, pos)
             /\ Len(parsed.label) <= pos
       /\ (parsed.status = "ok" /\ ~gapped) => parsed.gapindex = <<>>

(***************************************************************************)
(* Tree construction, identity and comparison.                             *)
(***************************************************************************)
MaxTrees == 2

\* Tree.newid = itertools.count().next
NextId(n) == n + 1

\* Faulty variant of deepcopy: copy(data), which shares the values stored in the dict.
copy_shallow(data) == [value |-> data, shared |-> "extra"]

\* deepcopy(data): an equal dict that shares no object with data.  shared
\* names what the copy has in common with the original: nothing ("none"),
\* the values stored in it ("extra") or everything ("dict").
deepcopy(data) == [value |-> data, shared |-> "none"]

\* Tree.__init__
TreeInit(id, data) ==
    [id |-> id, children |-> <<>>, parent |-> None, data |-> deepcopy(data).value]

BRACKETS == [c \in {"(", ")", "[", "]", "{", "}"} |->
                CASE c = "(" -> "LRB" [] c = ")" -> "RRB"
                  [] c = "[" -> "LSB" [] c = "]" -> "RSB"
                  [] c = "{" -> "LCB" [] c = "}" -> "RCB"]

\* replace_chars(tree, cands) on a field that holds one character; a field
\* that is None is skipped.
replace_chars(data, cands) ==
    [data EXCEPT !.label = IF @ # "None" /\ @ \in DOMAIN cands THEN cands[@] ELSE @]

CallerNums == {0, 1}

InitIdentity ==
    /\ nodes = <<>>
    /\ newid = 0
    /\ result = NoResult
    /\ caller = [WithNum(0) EXCEPT !.label = "(", !.keys = @ \cup {"extra"}]
    /\ shares = {}
    /\ NoCall
    /\ NoGrammar

SharesWith(k, parts) == \E sh \in shares : sh.node = k /\ sh.part \in parts

Construct ==
    /\ Fresh
    /\ Len(nodes) < MaxTrees
    /\ nodes' = Append(nodes, TreeInit(newid, caller))
    /\ newid' = NextId(newid)
    /\ shares' = IF deepcopy(caller).shared = "none" THEN shares
                 ELSE shares \cup {[node |-> Len(nodes) + 1,
                                    part |-> deepcopy(caller).shared]}
    /\ UNCHANGED <<result, caller, labelVars, gramVars>>

\* The caller assigns to a key of its dict.
CallerSetNum(p) ==
    /\ Fresh
    /\ caller.num # p
    /\ caller' = [caller EXCEPT !.num = p]
    /\ nodes' = [k \in 1..Len(nodes) |->
                    IF SharesWith(k, {"dict"})
                    THEN [nodes[k] EXCEPT !.data.num = p] ELSE nodes[k]]
    /\ UNCHANGED <<newid, result, shares, labelVars, gramVars>>

\* The caller changes a mutable value stored in its dict.
CallerAppendExtra ==
    /\ Fresh
    /\ caller.extra = <<>>
    /\ caller' = [caller EXCEPT !.extra = Append(@, "x")]
    /\ nodes' = [k \in 1..Len(nodes) |->
                    IF SharesWith(k, {"dict", "extra"})
                    THEN [nodes[k] EXCEPT !.data.extra = Append(@, "x")] ELSE nodes[k]]
    /\ UNCHANGED <<newid, result, shares, labelVars, gramVars>>

ReplaceChars(t) ==
    /\ Fresh
    /\ nodes' = [k \in 1..Len(nodes) |->
                    IF k = t \/ (SharesWith(t, {"dict"}) /\ SharesWith(k, {"dict"}))
                    THEN [nodes[k] EXCEPT !.data = replace_chars(@, BRACKETS)]
                    ELSE nodes[k]]
    /\ caller' = IF SharesWith(t, {"dict"}) THEN replace_chars(caller, BRACKETS)
                 ELSE caller
    /\ UNCHANGED <<newid, result, shares, labelVars, gramVars>>

Others == {[isTree |-> TRUE, ref |-> t] : t \in 1..Len(nodes)}
             \cup {[isTree |-> FALSE, ref |-> 0]}

Compare(s, other) ==
    /\ Fresh
    /\ result' = [NoResult EXCEPT !.op = "eq", !.a = s, !.b = other.ref,
                                  !.eq = TreeEqOther(nodes, s, other),
                                  !.ne = TreeNeOther(nodes, s, other)]
    /\ UNCHANGED <<nodes, newid, copyVars, labelVars, gramVars>>

NextIdentity ==
    \/ Construct
    \/ \E p \in CallerNums : CallerSetNum(p)
    \/ CallerAppendExtra
    \/ \E t \in 1..Len(nodes) : ReplaceChars(t)
    \/ \E s \in 1..Len(nodes) : \E o \in Others : Compare(s, o)

SpecIdentity == InitIdentity /\ [][NextIdentity]_vars

\* Instances have pairwise different ids; == holds exactly between an instance
\* and itself, != is its negation, and a non-Tree is never equal.
IdentityById ==
    /\ \A s, t \in 1..Len(nodes) : s # t => nodes[s].id # nodes[t].id
    /\ result.op = "eq" =>
          /\ result.eq <=> (result.b # 0 /\ result.a = result.b)
          /\ result.b # 0 => (result.eq <=> nodes[result.a].id = nodes[result.b].id)
          /\ result.ne <=> ~result.eq

\* A new Tree holds the caller's data as it is then; afterwards no step
\* changes both the caller's dict and the data of a node.
DataIsOwnCopy ==
    /\ Len(nodes') > Len(nodes) => nodes'[Len(nodes')].data = caller
    /\ \A k \in 1..Len(nodes) :
          nodes'[k].data # nodes[k].data => caller' = caller

\* C10: ids are unique, equality is identity of instances, and a Tree's data
\* is a deep copy that lives apart from the dict it was built from.
C10_IdentityAndCopy == []IdentityById /\ [][DataIsOwnCopy]_vars

\* C10's case: two Trees built from equal dicts compare unequal, and the
\* caller's dict has changed since without the nodes' data following.
C10_Witness ==
    /\ result.op = "eq" /\ result.a # result.b /\ result.b # 0
    /\ nodes[result.a].data = nodes[result.b].data
    /\ ~result.eq /\ result.ne
    /\ caller.extra # nodes[result.a].data.extra
    /\ caller.num # nodes[result.a].data.num

(***************************************************************************)
(* Grammar extraction.  A nonterminal label is a record: name is the       *)
(* category; marker, horiz and vert are set on the nonterminals that       *)
(* binarization synthesizes.  A grammar is a set of entries                *)
(* [func, lin, vert, count]: func is the left-hand side followed by the    *)
(* right-hand side, lin the linearization, a pair <<i, j>> in it the j-th  *)
(* argument of child i (both counted from 0).                              *)
(***************************************************************************)
MaxSentLen == 4
MaxSentences == 2

Sym(name) == [name |-> name, marker |-> "", horiz |-> <<>>, vert |-> <<>>]

DEFAULT_VERT == <<>>

SameKey(e, f) == e.func = f.func /\ e.lin = f.lin /\ e.vert = f.vert

\* Faulty variant of AddCount: the count is assigned, not added.
AddCountAssign(g, key, c) ==
    {e \in g : ~SameKey(e, key)}
       \cup {[func |-> key.func, lin |-> key.lin, vert |-> key.vert, count |-> c]}

\* grammar[func][lin][vert] += c
AddCount(g, key, c) ==
    IF \E e \in g : SameKey(e, key)
    THEN {IF SameKey(e, key) THEN [e EXCEPT !.count = @ + c] ELSE e : e \in g}
    ELSE g \cup {[func |-> key.func, lin |-> key.lin, vert |-> key.vert, count |-> c]}

\* preorder(tree)
RECURSIVE preorder(_, _)
RECURSIVE PreorderAll(_, _, _)
PreorderAll(ns, cs, i) ==
    IF i > Len(cs) THEN <<>>
    ELSE preorder(ns, cs[i]) \o PreorderAll(ns, cs, i + 1)

preorder(ns, t) == <<t>> \o PreorderAll(ns, children(ns, t).list, 1)

IndexIn(seq, x) == CHOOSE i \in 1..Len(seq) : seq[i] = x

\* The child that owns a terminal and the block of the child's span it is in.
OwnerPair(ns, kids, x) ==
    LET i == CHOOSE k \in 1..Len(kids) : x \in Range(terminals(ns, kids[k]).list)
        blocks == terminal_blocks(ns, kids[i]).blocks
        j == CHOOSE b \in 1..Len(blocks) : x \in Range(blocks[b])
    IN <<i - 1, j - 1>>

\* A pair is emitted when the owner differs from the previous terminal's.
RECURSIVE Collapse(_)
Collapse(pairs) ==
    IF Len(pairs) <= 1 THEN pairs
    ELSE LET rest == Collapse(Tail(pairs))
         IN IF pairs[1] = pairs[2] THEN rest ELSE <<pairs[1]>> \o rest

\* One left-hand-side argument per block of the node's span.
linearization(ns, t) ==
    LET blocks == terminal_blocks(ns, t).blocks
        kids == children(ns, t).list
    IN [b \in 1..Len(blocks) |->
          Collapse([k \in 1..Len(blocks[b]) |-> OwnerPair(ns, kids, blocks[b][k])])]

function(ns, t) ==
    LET kids == children(ns, t).list
    IN <<Sym(ns[t].data.label)>> \o [k \in 1..Len(kids) |-> Sym(ns[kids[k]].data.label)]

\* The vertical context of a node: the label of its parent.
vertical(ns, t) ==
    IF ns[t].parent = None THEN DEFAULT_VERT ELSE <<ns[ns[t].parent].data.label>>

RuleOf(ns, t) ==
    [func |-> function(ns, t), lin |-> linearization(ns, t), vert |-> vertical(ns, t)]

LexOf(ns, t) ==
    [func |-> <<Sym(ns[t].data.label)>>, lin |-> <<>>, vert |-> DEFAULT_VERT]

RECURSIVE ExtractNodes(_, _, _, _)
ExtractNodes(ns, order, i, acc) ==
    IF i > Len(order) THEN acc
    ELSE ExtractNodes(ns, order, i + 1,
            IF has_children(ns, order[i])
            THEN [acc EXCEPT !.grammar = AddCount(@, RuleOf(ns, order[i]), 1)]
            ELSE [acc EXCEPT !.lexicon = AddCount(@, LexOf(ns, order[i]), 1)])

\* extract(tree, grammar, lexicon): a malformed tree leaves both untouched.
extract(ns, root, gram, lex) ==
    IF terminals(ns, root).status # "ok"
    THEN [status |-> "malformed tree", grammar |-> gram, lexicon |-> lex]
    ELSE ExtractNodes(ns, preorder(ns, root), 1,
                      [status |-> "ok", grammar |-> gram, lexicon |-> lex])

(***************************************************************************)
(* Binarization.  A set of right-hand-side positions (counted from 0)      *)
(* covers, in every argument of the rule's linearization, maximal runs of  *)
(* consecutive pairs; the runs, in order, are the arguments of the         *)
(* nonterminal synthesized for the set.                                    *)
(***************************************************************************)
Arity(e) == Len(e.func) - 1

RECURSIVE RunsInArg(_, _, _, _)
RunsInArg(arg, a, cover, k) ==
    \* the runs that start at index k or behind it, as <<a, from, to>>
    IF k > Len(arg) THEN <<>>
    ELSE IF arg[k][1] \notin cover THEN RunsInArg(arg, a, cover, k + 1)
    ELSE LET to == CHOOSE m \in k..Len(arg) :
                      /\ \A x \in k..m : arg[x][1] \in cover
                      /\ (m = Len(arg) \/ arg[m + 1][1] \notin cover)
         IN <<<<a, k, to>>>> \o RunsInArg(arg, a, cover, to + 1)

RECURSIVE RunsFrom(_, _, _)
RunsFrom(lin, cover, a) ==
    IF a > Len(lin) THEN <<>>
    ELSE RunsInArg(lin[a], a, cover, 1) \o RunsFrom(lin, cover, a + 1)

Runs(lin, cover) == RunsFrom(lin, cover, 1)

Fanout(lin, cover) == Len(Runs(lin, cover))

\* The linearization of the rule that builds cover from parts[1] and parts[2]:
\* each run of cover is cut into the runs of its parts.
RECURSIVE Pieces(_, _, _, _, _, _)
Pieces(lin, parts, a, k, to, runs) ==
    IF k > to THEN <<>>
    ELSE LET side == IF lin[a][k][1] \in parts[1] THEN 1 ELSE 2
             j == CHOOSE x \in 1..Len(runs[side]) :
                     runs[side][x][1] = a /\ runs[side][x][2] = k
         IN <<<<side - 1, j - 1>>>>
               \o Pieces(lin, parts, a, runs[side][j][3] + 1, to, runs)

SubLin(lin, parts) ==
    LET whole == Runs(lin, parts[1] \cup parts[2])
        runs == <<Runs(lin, parts[1]), Runs(lin, parts[2])>>
    IN [r \in 1..Len(whole) |->
          Pieces(lin, parts, whole[r][1], whole[r][2], whole[r][3], runs)]

Take(seq, k) == SubSeq(seq, 1, Min(k, Len(seq)))
LastOf(seq, k) == SubSeq(seq, Len(seq) - Min(k, Len(seq)) + 1, Len(seq))

Covered(order, k) == {order[i] - 1 : i \in 1..k}

\* The nonterminal synthesized for the first k + 1 elements of the order.
Synth(e, order, k, mo) ==
    [name |-> "@",
     marker |-> IF k = Arity(e) - 2 THEN "top" ELSE "inner",
     horiz |-> LastOf([i \in 1..(k + 1) |-> e.func[1 + order[i]].name], mo.h),
     vert |-> Take(<<e.func[1].name>> \o e.vert, mo.v)]

\* The k-th binary rule of the chain, k in 1..Arity(e) - 1.
ChainRule(e, order, k, mo) ==
    [func |-> <<IF k = Arity(e) - 1 THEN e.func[1] ELSE Synth(e, order, k, mo),
                IF k = 1 THEN e.func[1 + order[1]] ELSE Synth(e, order, k - 1, mo),
                e.func[1 + order[k + 1]]>>,
     lin |-> SubLin(e.lin, <<Covered(order, k), {order[k + 1] - 1}>>),
     vert |-> e.vert,
     count |-> e.count]

\* The largest fan-out among the nonterminals an order synthesizes.
MaxFanout(lin, order) ==
    LET fs == {Fanout(lin, Covered(order, k + 1)) : k \in 1..(Len(order) - 2)}
    IN CHOOSE f \in fs : \A g \in fs : g <= f

Range1(f) == {f[x] : x \in DOMAIN f}

Perms(n) == {p \in [1..n -> 1..n] : \A i, j \in 1..n : i # j => p[i] # p[j]}

LexBefore(p, q) ==
    \E i \in 1..Len(p) : p[i] < q[i] /\ \A j \in 1..(i - 1) : p[j] = q[j]

left_to_right(e) == [i \in 1..Arity(e) |-> i]

\* Faulty variant of reordering_optimal: the comparison turned around.
reordering_worst(e) ==
    LET fan == [p \in Perms(Arity(e)) |-> MaxFanout(e.lin, p)]
        most == CHOOSE f \in Range1(fan) : \A g \in Range1(fan) : g <= f
        best == {p \in DOMAIN fan : fan[p] = most}
    IN CHOOSE p \in best : \A q \in best : p = q \/ LexBefore(p, q)

\* The order of least maximum fan-out, the lexicographically first of them.
reordering_optimal(e) ==
    LET fan == [p \in Perms(Arity(e)) |-> MaxFanout(e.lin, p)]
        least == CHOOSE f \in Range1(fan) : \A g \in Range1(fan) : f <= g
        best == {p \in DOMAIN fan : fan[p] = least}
    IN CHOOSE p \in best : \A q \in best : p = q \/ LexBefore(p, q)

Reorder(e, reordering) ==
    IF reordering = "optimal" THEN reordering_optimal(e) ELSE left_to_right(e)

\* The rules one entry of the grammar becomes.
BinarizeRule(e, mo, reordering) ==
    IF Arity(e) <= 2 THEN {e}
    ELSE {ChainRule(e, Reorder(e, reordering), k, mo) : k \in 1..(Arity(e) - 1)}

RECURSIVE AddAll(_, _)
AddAll(out, rules) ==
    IF rules = {} THEN out
    ELSE LET r == CHOOSE x \in rules : TRUE
         IN AddAll(AddCount(out, r, r.count), rules \ {r})

RECURSIVE BinarizeAll(_, _, _, _)
BinarizeAll(gram, out, mo, reordering) ==
    IF gram = {} THEN out
    ELSE LET e == CHOOSE x \in gram : TRUE
         IN BinarizeAll(gram \ {e}, AddAll(out, BinarizeRule(e, mo, reordering)),
                        mo, reordering)

\* binarize(grammar, markov_opts, reordering): a new grammar, or a
\* configuration error before any rule is touched.
binarize(gram, mo, reordering) ==
    IF mo.v < 0 \/ mo.h < 0
    THEN [status |-> "configuration error", grammar |-> {}]
    ELSE [status |-> "ok", grammar |-> BinarizeAll(gram, {}, mo, reordering)]

(***************************************************************************)
(* The trees of the corpus: a root over the children that an owner string  *)
(* describes.  owner[i] is the child that position i - 1 belongs to, 0 a   *)
(* position outside the tree; a child that owns one position is a leaf, a  *)
(* child that owns several has a leaf for each.                            *)
(***************************************************************************)
OwnerStrings ==
    UNION {{o \in [1..n -> 0..n] :
               /\ o[1] # 0 /\ o[n] # 0
               /\ \A i \in 1..n : o[i] > 1 => \E j \in 1..(i - 1) : o[j] = o[i] - 1} :
           n \in 1..MaxSentLen}

RootLabels == {"A", "B"}

Labelled(data, label) == [data EXCEPT !.label = label]

BuildTree(o, rootLabel, firstId) ==
    LET n == Len(o)
        m == CHOOSE c \in Range(o) : \A d \in Range(o) : d <= c
        Owned(c) == {i \in 1..n : o[i] = c}
        multi == {c \in 1..m : Cardinality(Owned(c)) > 1}
        below == SetToSeq({i \in 1..n : o[i] \in multi})
        LeafAt(i) == 1 + m + IndexIn(below, i)
    IN [k \in 1..(1 + m + Len(below)) |->
          IF k = 1
          THEN [id |-> firstId, children |-> [c \in 1..m |-> 1 + c], parent |-> None,
                data |-> Labelled(make_node_data, rootLabel)]
          ELSE IF k <= 1 + m
          THEN (IF k - 1 \in multi
                THEN [id |-> firstId + k - 1,
                      children |-> SetToSeq({LeafAt(i) : i \in Owned(k - 1)}),
                      parent |-> 1, data |-> Labelled(make_node_data, "X")]
                ELSE [id |-> firstId + k - 1, children |-> <<>>, parent |-> 1,
                      data |-> Labelled(WithNum((CHOOSE i \in Owned(k - 1) : TRUE) - 1),
                                        "T")])
          ELSE [id |-> firstId + k - 1, children |-> <<>>,
                parent |-> 1 + o[below[k - 1 - m]],
                data |-> Labelled(WithNum(below[k - 1 - m] - 1), "T")]]

MarkovOpts == {[v |-> 0, h |-> 0], [v |-> 1, h |-> 2], [v |-> 2, h |-> 1],
               [v |-> -1, h |-> 0]}

Reorderings == {"left_to_right", "optimal"}

InitGrammar ==
    /\ nodes = <<>> /\ newid = 0 /\ result = NoResult
    /\ NoCaller
    /\ NoCall
    /\ NoGrammar

\* The caller builds the next tree of the corpus and extracts from it.
Extract(o, rootLabel) ==
    /\ config.status = "none"
    /\ corpus < MaxSentences
    /\ LET tree == BuildTree(o, rootLabel, newid)
           x == extract(tree, 1, grammar, lexicon)
       IN /\ nodes' = tree
          /\ newid' = newid + Len(tree)
          /\ grammar' = x.grammar
          /\ lexicon' = x.lexicon
    /\ corpus' = corpus + 1
    /\ UNCHANGED <<result, copyVars, labelVars, bin_grammar, config>>

Binarize(mo, reordering) ==
    /\ config.status = "none"
    /\ corpus > 0
    /\ LET b == binarize(grammar, mo, reordering)
       IN /\ bin_grammar' = b.grammar
          /\ config' = [status |-> b.status, v |-> mo.v, h |-> mo.h,
                        reordering |-> reordering]
    /\ UNCHANGED <<treeVars, copyVars, labelVars, grammar, lexicon, corpus>>

NextGrammar ==
    \/ \E o \in OwnerStrings, l \in RootLabels : Extract(o, l)
    \/ \E mo \in MarkovOpts, r \in Reorderings : Binarize(mo, r)

SpecGrammar == InitGrammar /\ [][NextGrammar]_vars

(***************************************************************************)
(* Claims about extraction and binarization.                               *)
(***************************************************************************)
Nonterminals == {t \in 1..Len(nodes) : has_children(nodes, t)}

ChildFanout(t, i) ==
    Len(terminal_blocks(nodes, children(nodes, t).list[i + 1]).blocks)

ExpectedPairs(t) ==
    {<<i, j>> : i \in 0..(Len(nodes[t].children) - 1), j \in 0..MaxSentLen} \cap
    {pr \in (0..MaxSentLen) \X (0..MaxSentLen) :
        pr[1] < Len(nodes[t].children) /\ pr[2] < ChildFanout(t, pr[1])}

\* C3: in the entry that extract adds for a node, every pair (child i,
\* argument j) with j below the fan-out of child i occurs exactly once, no
\* other pair occurs, and there is one argument per block of the node.
C3_LinearizationBijection ==
    \A t \in Nonterminals :
        \E e \in grammar :
            /\ SameKey(e, RuleOf(nodes, t))
            /\ e.count >= 1
            /\ Range(Flatten(e.lin)) = ExpectedPairs(t)
            /\ Len(Flatten(e.lin)) = Cardinality(ExpectedPairs(t))
            /\ Len(e.lin) = Len(terminal_blocks(nodes, t).blocks)

\* C3's case: a node of two blocks with a child of two blocks.
C3_Witness ==
    \E t \in Nonterminals :
        /\ Len(terminal_blocks(nodes, t).blocks) >= 2
        /\ \E i \in 0..(Len(nodes[t].children) - 1) : ChildFanout(t, i) >= 2
        /\ \E e \in grammar : SameKey(e, RuleOf(nodes, t))

RECURSIVE Total(_)
Total(es) ==
    IF es = {} THEN 0
    ELSE LET e == CHOOSE x \in es : TRUE IN e.count + Total(es \ {e})

Under(g, lhs, vert) == {e \in g : e.func[1] = lhs /\ e.vert = vert}

\* C4: for v, h >= 0 and either reordering, the counts of the output rules
\* under a left-hand side F and a vertical context V add up to what the
\* input holds for F under V, and every rule made from an input rule carries
\* that rule's count and vertical context.
C4_CountConservation ==
    (config.status = "ok") =>
        /\ \A e \in grammar :
              Total(Under(bin_grammar, e.func[1], e.vert))
                 = Total(Under(grammar, e.func[1], e.vert))
        /\ \A e \in grammar :
              \A r \in BinarizeRule(e, config, config.reordering) :
                 /\ r.count = e.count /\ r.vert = e.vert
                 /\ \E b \in bin_grammar : SameKey(b, r) /\ b.count >= r.count

\* C4's case: two input rules of arity 3 end in the same output rule, whose
\* count is their sum.
C4_Witness ==
    /\ config.status = "ok"
    /\ \E e, f \in grammar :
          /\ e # f /\ Arity(e) > 2 /\ Arity(f) > 2
          /\ \E b \in bin_grammar :
                /\ b.func[1] = e.func[1]
                /\ \E r \in BinarizeRule(e, config, config.reordering) : SameKey(b, r)
                /\ \E r \in BinarizeRule(f, config, config.reordering) : SameKey(b, r)
                /\ b.count = e.count + f.count

SynthFanout(rules) ==
    LET fs == {Len(r.lin) : r \in {x \in rules : x.func[1].marker # ""}}
    IN CHOOSE f \in fs : \A g \in fs : g <= f

\* C5: for a rule of arity > 2 the largest fan-out of the nonterminals that
\* binarize synthesizes under the optimal reordering is at most the largest
\* under left_to_right.
C5_OptimalNoWorse ==
    (config.status = "ok" /\ config.reordering = "optimal") =>
        \A e \in grammar :
            Arity(e) > 2 =>
               /\ \A r \in BinarizeRule(e, config, "optimal") :
                     \E b \in bin_grammar : SameKey(b, r)
               /\ SynthFanout(BinarizeRule(e, config, "optimal"))
                     <= SynthFanout(BinarizeRule(e, config, "left_to_right"))

\* C5's case: a rule for which the optimal order is strictly better.
C5_Witness ==
    /\ config.status = "ok" /\ config.reordering = "optimal"
    /\ \E e \in grammar :
          /\ Arity(e) > 2
          /\ SynthFanout(BinarizeRule(e, config, "optimal"))
                < SynthFanout(BinarizeRule(e, config, "left_to_right"))

====
